---- MODULE Spec2Model ----
(***************************************************************************)
(* Model of src/archieves_system.py: an i-node file system kept in one     *)
(* image file (disco.img).  The image is a byte array; save_disk pickles   *)
(* (bitmap, inode_table) at offset 0 of the same byte array in which       *)
(* create_file stores data block b at offset b * block_size.               *)
(*                                                                         *)
(* Scaling.  The program's sizes (4096-byte blocks, 65536 blocks, 1024     *)
(* i-nodes, a pickle of about 132 KB = 32.3 blocks that grows with every   *)
(* i-node record) are scaled down: blocks of block_size bytes, num_blocks  *)
(* blocks, inode_table_size slots, and a pickle of PickleBase bytes plus   *)
(* the bytes of the names of the live i-nodes.  What is kept: the pickle   *)
(* starts at offset 0, covers the lowest-numbered blocks, ends inside a    *)
(* block, and grows and shrinks with the i-node table.                     *)
(*                                                                         *)
(* Bytes.  "z" is the zero byte, "a" is a one-byte character, the          *)
(* character "E" is encoded by UTF-8 as the two bytes "E1" "E2", "P0" is   *)
(* the first byte of a pickle (0x80, not valid UTF-8) and "K" stands for   *)
(* every later pickle byte (the bitmap is pickled as K\x00 K\x01 pairs,    *)
(* which decode as text).  File contents are drawn from an alphabet that   *)
(* has no pickle opcodes in it.                                            *)
(*                                                                         *)
(* The fields owner, creation_time and modification_time of an i-node come *)
(* from the environment (os.getlogin, time.ctime) and are not modelled.    *)
(***************************************************************************)
EXTENDS Integers, Sequences, FiniteSets, TLC

\* ---------------------------------------------------------------- sizes
block_size == 2
num_blocks == 3
inode_table_size == 2
disk_size == num_blocks * block_size

PickleBase == 2
MaxContentLen == 3
\* the number of operations of one behaviour
MaxOps == 5

Blocks == 0 .. (num_blocks - 1)
Slots == 0 .. (inode_table_size - 1)
Offsets == 0 .. (disk_size - 1)

\* "d/f" is the path of an entry f of directory d; "d" names the directory
Names == {"f", "d", "d/f"}
FileNames == {"f", "d/f"}
\* a directory "d/f" is nested in the directory "d"
DirNames == {"d", "d/f"}
\* (target, link_name) pairs; the two together are the cycle f -> d -> f
SymlinkPairs == {<<"d", "f">>, <<"f", "d">>}

\* the contents tried: "", "a", "aa", ... up to MaxContentLen characters (0 bytes,
\* one block, one block plus one byte), and the two-byte character alone and
\* before an "a"
Contents ==
    {[k \in 1 .. n |-> "a"] : n \in 0 .. MaxContentLen} \cup {<<"E">>, <<"E", "a">>}

\* the data d tried by operation 4
AppendContents == {<<"a">>, <<"a", "a">>}

\* ------------------------------------------------------------ i-nodes
None == [type |-> "None"]

FileInode(name, size, blocks) ==
    [name |-> name, size |-> size, permissions |-> "rw-r--r--",
     blocks |-> blocks, type |-> "file"]

SymlinkInode(target, link_name) ==
    [name |-> link_name, size |-> 0, permissions |-> "rwxrwxrwx",
     blocks |-> << >>, type |-> "symlink", target |-> target]

DirectoryInode(name) ==
    [name |-> name, size |-> 0, permissions |-> "rwxr-xr-x",
     blocks |-> << >>, type |-> "directory", contents |-> << >>]

Live(it) == {i \in Slots : it[i] # None}

EmptyBitmap == [b \in Blocks |-> 0]
EmptyTable == [i \in Slots |-> None]

\* ------------------------------------------------------- str <-> bytes
\* str.encode("utf-8")
RECURSIVE Encode(_)
Encode(s) ==
    IF Len(s) = 0 THEN << >>
    ELSE (IF Head(s) = "E" THEN <<"E1", "E2">> ELSE <<Head(s)>>) \o Encode(Tail(s))

DecodeError == <<"UnicodeDecodeError">>

\* bytes.decode("utf-8"): the text, or DecodeError
RECURSIVE Decode(_)
Decode(bs) ==
    IF Len(bs) = 0 THEN << >>
    ELSE IF Head(bs) \in {"P0", "E2"} THEN DecodeError
    ELSE IF Head(bs) = "E1"
         THEN IF Len(bs) >= 2 /\ bs[2] = "E2"
              THEN LET r == Decode(Tail(Tail(bs)))
                   IN  IF r = DecodeError THEN DecodeError ELSE <<"E">> \o r
              ELSE DecodeError
    ELSE LET r == Decode(Tail(bs))
         IN  IF r = DecodeError THEN DecodeError ELSE <<Head(bs)>> \o r

Take(s, n) == SubSeq(s, 1, IF Len(s) < n THEN Len(s) ELSE n)
Drop(s, n) == SubSeq(s, n + 1, Len(s))

\* ---------------------------------------------------------- the image
\* f.seek(off); f.write(bs) on the fixed-size image; bytes written past the
\* end of the image lengthen the file and are never read back by the program.
WriteAt(dk, off, bs) ==
    [o \in Offsets |-> IF o >= off /\ o < off + Len(bs) THEN bs[o - off + 1] ELSE dk[o]]

\* f.seek(off); f.read(n)
ReadAt(dk, off, n) ==
    [k \in 1 .. (IF off + n > disk_size THEN disk_size - off ELSE n) |-> dk[off + k - 1]]

NameLen(name) == IF name = "d/f" THEN 2 ELSE 1

RECURSIVE SumNameLen(_, _)
SumNameLen(it, S) ==
    IF S = {} THEN 0
    ELSE LET i == CHOOSE j \in S : TRUE
         IN  NameLen(it[i].name) + SumNameLen(it, S \ {i})

\* len(pickle.dumps((bitmap, inode_table)))
PickleLen(it) == PickleBase + SumNameLen(it, Live(it))

PickleByte(o) == IF o = 0 THEN "P0" ELSE "K"

PickleBytes(it) == [k \in 1 .. PickleLen(it) |-> PickleByte(k - 1)]

ZeroDisk == [o \in Offsets |-> "z"]

\* bitmap, inode_table, cwd: the fields of the FileSystem object
\* disk:     the bytes of disco.img
\* pickled:  the (bitmap, inode_table) that the last pickle.dump serialized
\* running:  a FileSystem object exists (FALSE once __init__ has raised)
\* result:   the last operation, its arguments and what it returned or raised
\* written:  history: for each slot, the content its file was created with
\* nops:     history: the number of operations so far
VARIABLES bitmap, inode_table, cwd, disk, pickled, running, result, written, nops

vars == <<bitmap, inode_table, cwd, disk, pickled, running, result, written, nops>>

\* FileSystem.save_disk: the image after pickle.dump at offset 0
save_disk(dk, it) == WriteAt(dk, 0, PickleBytes(it))

Pickled(bm, it) == [ok |-> TRUE, bitmap |-> bm, inode_table |-> it]

\* pickle.dump was cut short: the image holds the first bytes of this pickle
Torn(bm, it) == [ok |-> FALSE, bitmap |-> bm, inode_table |-> it]

\* every byte of the pickle last dumped is still a pickle byte in the image
PickleBytesInPlace ==
    \A o \in 0 .. (PickleLen(pickled.inode_table) - 1) : disk[o] = PickleByte(o)

\* pickle.load returns what the last pickle.dump serialized
Intact == pickled.ok /\ PickleBytesInPlace

NoneWritten == [i \in Slots |-> << >>]

Result(op, status, name, content, out) ==
    [op |-> op, status |-> status, name |-> name, content |-> content, out |-> out]

\* one more operation of the behaviour
Tick == nops < MaxOps /\ nops' = nops + 1

\* FileSystem.__init__ with no image: format_disk
Init ==
    /\ bitmap = EmptyBitmap
    /\ inode_table = EmptyTable
    /\ cwd = 0
    /\ disk = save_disk(ZeroDisk, EmptyTable)
    /\ pickled = Pickled(EmptyBitmap, EmptyTable)
    /\ running = TRUE
    /\ result = Result("__init__", "formatted", "", << >>, << >>)
    /\ written = NoneWritten
    /\ nops = 0

\* ----------------------------------------------------------- allocation
\* allocate_block taking the highest free block instead of the lowest
allocate_block_highest(bm) ==
    IF \E b \in Blocks : bm[b] = 0
    THEN CHOOSE b \in Blocks : bm[b] = 0 /\ \A c \in Blocks : c > b => bm[c] # 0
    ELSE -1

\* FileSystem.allocate_block: the block it marks and returns, -1 when it raises
allocate_block(bm) ==
    IF \E b \in Blocks : bm[b] = 0
    THEN CHOOSE b \in Blocks : bm[b] = 0 /\ \A c \in Blocks : c < b => bm[c] # 0
    ELSE -1

\* FileSystem.allocate_inode: the slot it returns, -1 when it raises
allocate_inode(it) ==
    IF \E i \in Slots : it[i] = None
    THEN CHOOSE i \in Slots : it[i] = None /\ \A j \in Slots : j < i => it[j] # None
    ELSE -1

\* the while loop of create_file: allocate a block per chunk and write it
RECURSIVE WriteLoop(_, _, _, _)
WriteLoop(content, bm, dk, blocks) ==
    IF Len(content) = 0
    THEN [raised |-> FALSE, bitmap |-> bm, disk |-> dk, blocks |-> blocks]
    ELSE LET b == allocate_block(bm)
         IN  IF b = -1
             THEN [raised |-> TRUE, bitmap |-> bm, disk |-> dk, blocks |-> blocks]
             ELSE WriteLoop(Drop(content, block_size),
                            [bm EXCEPT ![b] = 1],
                            WriteAt(dk, b * block_size, Encode(Take(content, block_size))),
                            Append(blocks, b))

\* FileSystem.create_file(name, content); op and out are what the caller records
CreateFileAs(op, name, content, out) ==
    LET idx == allocate_inode(inode_table)
        w == WriteLoop(content, bitmap, disk, << >>)
    IN  IF idx = -1
        THEN /\ result' = Result(op, "RuntimeError", "", content, << >>)
             /\ UNCHANGED <<bitmap, inode_table, cwd, disk, pickled, running, written>>
        ELSE IF w.raised
        THEN /\ bitmap' = w.bitmap
             /\ disk' = w.disk
             /\ result' = Result(op, "RuntimeError", "", content, << >>)
             /\ UNCHANGED <<inode_table, cwd, pickled, running, written>>
        ELSE LET it == [inode_table EXCEPT ![idx] = FileInode(name, Len(content), w.blocks)]
             IN  /\ bitmap' = w.bitmap
                 /\ inode_table' = it
                 /\ disk' = save_disk(w.disk, it)
                 /\ pickled' = Pickled(w.bitmap, it)
                 /\ written' = [written EXCEPT ![idx] = content]
                 /\ result' = Result(op, "ok", name, content, out)
                 /\ UNCHANGED <<cwd, running>>

create_file ==
    /\ running /\ Tick
    /\ \E name \in FileNames, content \in Contents :
          CreateFileAs("create_file", name, content, << >>)

\* main, operation '4' ("Adicionar conteudo a um arquivo"): fs.create_file(name, content)
main_op4 ==
    /\ running /\ Tick
    /\ \E name \in FileNames, content \in AppendContents :
          CreateFileAs("append", name, content, << >>)

\* ---------------------------------------------------------------- lookup
\* the first slot (table order) holding a live i-node of that name and type, -1 if none
Find(it, name, type) ==
    IF \E i \in Slots : it[i].type = type /\ it[i].name = name
    THEN CHOOSE i \in Slots :
            /\ it[i].type = type /\ it[i].name = name
            /\ \A j \in Slots : j < i => ~(it[j].type = type /\ it[j].name = name)
    ELSE -1

\* the for loop over inode["blocks"] in read_file
RECURSIVE ReadLoop(_, _, _, _)
ReadLoop(dk, blocks, remaining, content) ==
    IF Len(blocks) = 0 THEN content
    ELSE LET block_data == ReadAt(dk, Head(blocks) * block_size, block_size)
             part == Take(block_data, remaining)
             text == Decode(part)
         IN  IF text = DecodeError THEN DecodeError
             ELSE IF remaining - Len(part) <= 0 THEN content \o text
             ELSE ReadLoop(dk, Tail(blocks), remaining - Len(part), content \o text)

NotFound == <<"FileNotFoundError">>

\* what FileSystem.read_file(name) returns; DecodeError or NotFound when it raises
ReadFile(dk, it, name) ==
    LET i == Find(it, name, "file")
    IN  IF i = -1 THEN NotFound
        ELSE ReadLoop(dk, it[i].blocks, it[i].size, << >>)

ReadStatus(r) ==
    IF r = NotFound THEN "FileNotFoundError"
    ELSE IF r = DecodeError THEN "UnicodeDecodeError" ELSE "ok"

read_file ==
    /\ running /\ Tick
    /\ \E name \in Names :
          LET r == ReadFile(disk, inode_table, name)
          IN  result' = IF ReadStatus(r) = "ok"
                        THEN Result("read_file", "ok", name, << >>, r)
                        ELSE Result("read_file", ReadStatus(r), name, << >>, << >>)
    /\ UNCHANGED <<bitmap, inode_table, cwd, disk, pickled, running, written>>

\* free_block writing 1 where it should write 0
free_block_marks(bm, block_index) == [bm EXCEPT ![block_index] = 1]

\* FileSystem.free_block
free_block(bm, block_index) == [bm EXCEPT ![block_index] = 0]

\* the for loop over inode["blocks"] in delete_file
RECURSIVE FreeBlocks(_, _)
FreeBlocks(bm, blocks) ==
    IF Len(blocks) = 0 THEN bm
    ELSE FreeBlocks(free_block(bm, Head(blocks)), Tail(blocks))

\* FileSystem.delete_file
delete_file ==
    /\ running /\ Tick
    /\ \E name \in Names :
          LET i == Find(inode_table, name, "file")
          IN  IF i = -1
              THEN /\ result' = Result("delete_file", "FileNotFoundError", "", << >>, << >>)
                   /\ UNCHANGED <<bitmap, inode_table, cwd, disk, pickled, running, written>>
              ELSE LET bm == FreeBlocks(bitmap, inode_table[i].blocks)
                       it == [inode_table EXCEPT ![i] = None]
                   IN  /\ bitmap' = bm
                       /\ inode_table' = it
                       /\ disk' = save_disk(disk, it)
                       /\ pickled' = Pickled(bm, it)
                       /\ written' = [written EXCEPT ![i] = << >>]
                       /\ result' = Result("delete_file", "ok", name, << >>, inode_table[i].blocks)
                       /\ UNCHANGED <<cwd, running>>

\* FileSystem.copy_file
copy_file ==
    /\ running /\ Tick
    /\ \E source \in FileNames, destination \in FileNames :
          LET content == ReadFile(disk, inode_table, source)
          IN  IF ReadStatus(content) # "ok"
              THEN /\ result' = Result("copy_file", ReadStatus(content), "", << >>, << >>)
                   /\ UNCHANGED <<bitmap, inode_table, cwd, disk, pickled, running, written>>
              ELSE CreateFileAs("copy_file", destination, content, <<source>>)

\* FileSystem.rename_file
rename_file ==
    /\ running /\ Tick
    /\ \E old_name \in FileNames, new_name \in FileNames :
          LET i == Find(inode_table, old_name, "file")
          IN  IF i = -1
              THEN /\ result' = Result("rename_file", "FileNotFoundError", "", << >>, << >>)
                   /\ UNCHANGED <<bitmap, inode_table, cwd, disk, pickled, running, written>>
              ELSE LET it == [inode_table EXCEPT ![i].name = new_name]
                   IN  /\ inode_table' = it
                       /\ disk' = save_disk(disk, it)
                       /\ pickled' = Pickled(bitmap, it)
                       /\ result' = Result("rename_file", "ok", old_name, << >>, <<new_name>>)
                       /\ UNCHANGED <<bitmap, cwd, running, written>>

\* create_symlink and create_directory: put one record in the first free slot
CreateInode(op, name, inode, out) ==
    LET idx == allocate_inode(inode_table)
    IN  IF idx = -1
        THEN /\ result' = Result(op, "RuntimeError", "", << >>, << >>)
             /\ UNCHANGED <<bitmap, inode_table, cwd, disk, pickled, running, written>>
        ELSE LET it == [inode_table EXCEPT ![idx] = inode]
             IN  /\ inode_table' = it
                 /\ disk' = save_disk(disk, it)
                 /\ pickled' = Pickled(bitmap, it)
                 /\ result' = Result(op, "ok", name, << >>, out)
                 /\ UNCHANGED <<bitmap, cwd, running, written>>

\* FileSystem.create_symlink
create_symlink ==
    /\ running /\ Tick
    /\ \E p \in SymlinkPairs :
          CreateInode("create_symlink", p[2], SymlinkInode(p[1], p[2]), <<p[1]>>)

\* FileSystem.create_directory
create_directory ==
    /\ running /\ Tick
    /\ \E name \in DirNames :
          CreateInode("create_directory", name, DirectoryInode(name), << >>)

\* FileSystem.list_directory: prints inode["contents"], changes nothing
list_directory ==
    /\ running /\ Tick
    /\ \E name \in Names :
          LET i == Find(inode_table, name, "directory")
          IN  result' = IF i = -1
                        THEN Result("list_directory", "FileNotFoundError", "", << >>, << >>)
                        ELSE Result("list_directory", "ok", name, << >>, inode_table[i].contents)
    /\ UNCHANGED <<bitmap, inode_table, cwd, disk, pickled, running, written>>

\* FileSystem.remove_directory
remove_directory ==
    /\ running /\ Tick
    /\ \E name \in Names :
          LET i == Find(inode_table, name, "directory")
          IN  IF i = -1
              THEN /\ result' = Result("remove_directory", "FileNotFoundError", "", << >>, << >>)
                   /\ UNCHANGED <<bitmap, inode_table, cwd, disk, pickled, running, written>>
              ELSE IF Len(inode_table[i].contents) > 0
              THEN /\ result' = Result("remove_directory", "RuntimeError", name, << >>, << >>)
                   /\ UNCHANGED <<bitmap, inode_table, cwd, disk, pickled, running, written>>
              ELSE LET it == [inode_table EXCEPT ![i] = None]
                   IN  /\ inode_table' = it
                       /\ disk' = save_disk(disk, it)
                       /\ pickled' = Pickled(bitmap, it)
                       /\ result' = Result("remove_directory", "ok", name, << >>, << >>)
                       /\ UNCHANGED <<bitmap, cwd, running, written>>

\* FileSystem.change_directory
change_directory ==
    /\ running /\ Tick
    /\ \E dir_name \in DirNames \cup {"f", ".", ".."} :
          LET i == Find(inode_table, dir_name, "directory")
          IN  /\ cwd' = IF dir_name = "." THEN cwd
                        ELSE IF dir_name = ".." THEN 0
                        ELSE IF i = -1 THEN cwd ELSE i
              /\ result' = Result("change_directory",
                                  IF dir_name \notin {".", ".."} /\ i = -1
                                  THEN "not found" ELSE "ok",
                                  dir_name, << >>, << >>)
    /\ UNCHANGED <<bitmap, inode_table, disk, pickled, running, written>>

\* ---------------------------------------------------------------- start
\* FileSystem.format_disk on a FileSystem whose bitmap and table are still the
\* empty ones of __init__
Format(status) ==
    /\ bitmap' = EmptyBitmap
    /\ inode_table' = EmptyTable
    /\ disk' = save_disk(ZeroDisk, EmptyTable)
    /\ pickled' = Pickled(EmptyBitmap, EmptyTable)
    /\ running' = TRUE
    /\ written' = NoneWritten
    /\ result' = Result("__init__", status, "", << >>, << >>)

\* The process is killed inside create_file(name, content): either after the
\* data write of one of its blocks and before save_disk, or inside save_disk
\* after pickle.dump has written only the first bytes of the new pickle.  The
\* FileSystem object is gone; result.out keeps the metadata in memory before
\* the call, the metadata pickled before the call, and the metadata the call
\* would have left.
crash_in_create_file ==
    /\ running /\ Tick
    /\ \E name \in FileNames, content \in Contents \ {<< >>} :
          LET idx == allocate_inode(inode_table)
              w == WriteLoop(content, bitmap, disk, << >>)
              it == [inode_table EXCEPT ![idx] = FileInode(name, Len(content), w.blocks)]
              info == <<[bitmap |-> bitmap, inode_table |-> inode_table],
                        [bitmap |-> pickled.bitmap, inode_table |-> pickled.inode_table],
                        [bitmap |-> w.bitmap, inode_table |-> it]>>
          IN  /\ idx # -1
              /\ ~w.raised
              /\ \/ \E k \in 1 .. Len(w.blocks) :
                       /\ disk' = WriteLoop(Take(content, k * block_size), bitmap, disk, << >>).disk
                       /\ result' = Result("crash", "in create_file", name, content, info)
                       /\ UNCHANGED <<pickled, written>>
                 \/ \E n \in 1 .. (PickleLen(it) - 1) :
                       /\ disk' = WriteAt(w.disk, 0, Take(PickleBytes(it), n))
                       /\ pickled' = Torn(w.bitmap, it)
                       /\ written' = [written EXCEPT ![idx] = content]
                       /\ result' = Result("crash", "in save_disk", name, content, info)
    /\ bitmap' = EmptyBitmap
    /\ inode_table' = EmptyTable
    /\ cwd' = 0
    /\ running' = FALSE

\* The process has ended (normally between two operations, by an exception that
\* left main(), or killed) and main() runs again: FileSystem.__init__ over the
\* existing image.  pickle.load of a whole pickle returns what was dumped.
\* pickle.load of a damaged pickle raises, and which exception depends on the
\* bytes that replaced the pickle's: a data byte at offset 0 is an opcode on an
\* empty stack or an invalid load key (UnpicklingError, caught: the image is
\* reformatted); damage further on raises either a caught exception or another
\* one (AttributeError, EOFError ...) that leaves __init__ with no FileSystem
\* object.  A pickle cut short over an older one loads when the older bytes
\* continue it, and raises otherwise.
restart ==
    /\ Tick
    /\ cwd' = 0
    /\ \/ /\ PickleBytesInPlace
          /\ bitmap' = pickled.bitmap
          /\ inode_table' = pickled.inode_table
          /\ pickled' = Pickled(pickled.bitmap, pickled.inode_table)
          /\ running' = TRUE
          /\ result' = Result("__init__", "loaded", "", << >>, << >>)
          /\ UNCHANGED <<disk, written>>
       \/ /\ ~Intact
          /\ Format("reformatted")
       \/ /\ ~Intact
          /\ disk[0] = PickleByte(0)
          /\ bitmap' = EmptyBitmap
          /\ inode_table' = EmptyTable
          /\ running' = FALSE
          /\ result' = Result("__init__", "raised", "", << >>, << >>)
          /\ UNCHANGED <<disk, pickled, written>>

Next ==
    \/ create_file
    \/ main_op4
    \/ read_file
    \/ delete_file
    \/ copy_file
    \/ rename_file
    \/ create_symlink
    \/ create_directory
    \/ list_directory
    \/ remove_directory
    \/ change_directory
    \/ crash_in_create_file
    \/ restart

Spec == Init /\ [][Next]_vars

\* ------------------------------------------------------------- properties
Range(q) == {q[k] : k \in 1 .. Len(q)}

Occupied(bm) == {b \in Blocks : bm[b] = 1}

Referenced(it) == UNION {Range(it[i].blocks) : i \in Live(it)}

Files(it) == {i \in Slots : it[i].type = "file"}

\* what reading the file in slot i returns: the block loop of read_file
ReadSlot(dk, it, i) == ReadLoop(dk, it[i].blocks, it[i].size, << >>)

\* ceil(n / block_size)
BlocksFor(n) == (n + block_size - 1) \div block_size

\* the directory a name lies in, by its path: "d/f" is the entry f of d
DirOf(name) == IF name = "d/f" THEN "d" ELSE "/"

\* directory d has entries other than "." and ".."
HasEntries(it, d) == \E i \in Live(it) : DirOf(it[i].name) = d

\* C1: after a successful create_file(name, c), read_file(name) returns exactly
\* c, whatever blocks the file got, the lowest-numbered ones included.
C1_ReadReturnsWritten ==
    (result.op = "create_file" /\ result.status = "ok")
        => ReadFile(disk, inode_table, result.name) = result.content

\* C2: the blocks marked 1 in the bitmap are exactly the blocks in the block
\* lists of the live i-nodes, also after a call that raised.
C2_BitmapEqualsReferenced ==
    running => Occupied(bitmap) = Referenced(inode_table)

\* C3: a FileSystem constructed after a crash inside create_file has the
\* bitmap and i-node table of before the call or those of after it.
C3_CrashLeavesBeforeOrAfter ==
    [][(result.op = "crash" /\ running')
          => [bitmap |-> bitmap', inode_table |-> inode_table'] \in Range(result.out)]_vars

\* C4: when the image exists and its metadata does not deserialize, __init__
\* reports the error and leaves the image as it is; it never reformats.
C4_NoSilentReformat ==
    [][(result'.op = "__init__" /\ result'.status # "loaded")
          => (result'.status = "raised" /\ ~running' /\ disk' = disk)]_vars

\* C5: when the metadata in memory is the metadata last saved, a fresh
\* FileSystem over the image has the same bitmap and i-node table, and every
\* file reads back the content it was created with.
C5_RestartRoundTrip ==
    [][(running /\ pickled = Pickled(bitmap, inode_table) /\ result'.op = "__init__")
          => /\ running'
             /\ bitmap' = bitmap
             /\ inode_table' = inode_table
             /\ \A i \in Files(inode_table') :
                    ReadSlot(disk', inode_table', i) = written'[i]]_vars

\* C6: a successful delete_file(name) clears exactly the bitmap bits of the
\* removed i-node's blocks and empties exactly its slot: the free blocks grow
\* by the length of its block list and the free slots by one.
C6_DeleteFreesExactly ==
    [][(result'.op = "delete_file" /\ result'.status = "ok")
          => \E i \in Files(inode_table) :
                /\ inode_table[i].name = result'.name
                /\ inode_table' = [inode_table EXCEPT ![i] = None]
                /\ bitmap' = [b \in Blocks |->
                                 IF b \in Range(inode_table[i].blocks) THEN 0 ELSE bitmap[b]]
                /\ Cardinality(Blocks \ Occupied(bitmap'))
                      = Cardinality(Blocks \ Occupied(bitmap)) + Len(inode_table[i].blocks)
                /\ Cardinality(Slots \ Live(inode_table'))
                      = Cardinality(Slots \ Live(inode_table)) + 1]_vars

\* a file of two blocks was deleted while another i-node stayed
C6_Witness ==
    /\ result.op = "delete_file" /\ result.status = "ok"
    /\ Len(result.out) = 2
    /\ Live(inode_table) # {}

\* C7: remove_directory(d) on an existing directory d fails with the
\* directory-not-empty error exactly when d has entries.
C7_RemoveDirectoryIffEmpty ==
    [][(result'.op = "remove_directory" /\ result'.status \in {"ok", "RuntimeError"})
          => (result'.status = "RuntimeError" <=> HasEntries(inode_table, result'.name))]_vars

\* C8: no two live i-nodes carry the same name.
C8_UniqueNames ==
    \A i, j \in Live(inode_table) : i # j => inode_table[i].name # inode_table[j].name

\* C9 (block lists): no block is in the block lists of two live i-nodes, nor
\* twice in one list, and every block in a list is marked occupied.
C9_BlocksDisjoint ==
    /\ Referenced(inode_table) \subseteq Occupied(bitmap)
    /\ \A i, j \in Live(inode_table) :
          i # j => Range(inode_table[i].blocks) \cap Range(inode_table[j].blocks) = {}
    /\ \A i \in Live(inode_table) :
          Cardinality(Range(inode_table[i].blocks)) = Len(inode_table[i].blocks)

\* C9: block lists are disjoint and stay marked occupied when another file is
\* deleted, and a successful copy_file(src, dst) puts in another slot a file of
\* the source's size, with blocks that are not the source's, that reads back
\* the source's content.
C9_CopyIsIndependent ==
    [][C9_BlocksDisjoint'
       /\ ((result'.op = "copy_file" /\ result'.status = "ok")
             => LET s == Find(inode_table, result'.out[1], "file")
                IN  \E d \in Slots \ {s} :
                       /\ inode_table[d] = None
                       /\ inode_table'[d].type = "file"
                       /\ inode_table'[d].name = result'.name
                       /\ Range(inode_table'[d].blocks) \cap Range(inode_table'[s].blocks) = {}
                       /\ inode_table'[d].size = inode_table'[s].size
                       /\ ReadSlot(disk', inode_table', d) = written[s])]_vars

\* C10: operation 4 on an existing file keeps one i-node of that name, adds
\* len(d) to its size, makes read_file return the old content followed by d
\* and allocates only the blocks the longer content needs; on a name with no
\* file it creates the file with content d.
C10_AppendExtendsFile ==
    [][(result'.op = "append" /\ result'.status = "ok")
          => LET name == result'.name
                 d == result'.content
                 i == Find(inode_table, name, "file")
             IN  IF i = -1
                 THEN \E j \in Slots :
                         /\ inode_table[j] = None
                         /\ inode_table'[j].type = "file"
                         /\ inode_table'[j].name = name
                         /\ inode_table'[j].size = Len(d)
                         /\ Len(inode_table'[j].blocks) = BlocksFor(Len(d))
                         /\ \A k \in Slots \ {j} : inode_table'[k] = inode_table[k]
                         /\ written'[j] = d
                 ELSE /\ Cardinality({j \in Files(inode_table') :
                                         inode_table'[j].name = name})
                           = Cardinality({j \in Files(inode_table) :
                                            inode_table[j].name = name})
                      /\ inode_table'[i].size = inode_table[i].size + Len(d)
                      /\ ReadFile(disk', inode_table', name) = written[i] \o d
                      /\ Cardinality(Occupied(bitmap')) - Cardinality(Occupied(bitmap))
                           = BlocksFor(inode_table[i].size + Len(d))
                             - BlocksFor(inode_table[i].size)]_vars

\* the slot change_directory("..") has to reach from the directory named n: the
\* slot of the directory n is an entry of, slot 0 for an entry of the root
ParentSlot(it, n) == IF DirOf(n) = "/" THEN 0 ELSE Find(it, DirOf(n), "directory")

\* the last call was a change_directory into a directory of the table by its
\* name: that directory is where the cursor is
EnteredDir == /\ result.op = "change_directory"
              /\ result.status = "ok"
              /\ result.name \in DirNames

\* C11: change_directory(".") leaves cwd as it is; change_directory("..") at
\* the root leaves cwd at 0; change_directory("..") from a directory that was
\* just entered, and whose parent is in the table, sets cwd to the slot of that
\* parent (for "d/f" the slot of "d", not the root)
C11_DotDotGoesToParent ==
    [][result'.op = "change_directory"
          => /\ result'.name = "." => cwd' = cwd
             /\ result'.name = ".."
                   => IF EnteredDir /\ ParentSlot(inode_table, result.name) # -1
                      THEN cwd' = ParentSlot(inode_table, result.name)
                      ELSE cwd = 0 => cwd' = 0]_vars

\* the two parts of C11 that the code meets: "." never moves the cursor, and
\* ".." with the cursor at slot 0 leaves it there
C11_DotAndRootStay ==
    [][(result'.op = "change_directory" /\ result'.name \in {".", ".."})
          => /\ result'.name = "." => cwd' = cwd
             /\ cwd = 0 => cwd' = 0]_vars

\* C12: in every state of a running program slot 0 of the inode table holds a
\* live inode of type directory (the root), from the fresh format onward
C12_RootIsLiveDirectory ==
    running => inode_table[0].type = "directory"

\* C13: a successful rename_file changes the 'name' field of one file inode and
\* nothing else: the bitmap, the cursor, the inode's other fields and every
\* other inode stay, and every file reads back afterwards what it read back
\* before the call
C13_RenameChangesOnlyName ==
    [][(result'.op = "rename_file" /\ result'.status = "ok")
          => /\ bitmap' = bitmap
             /\ cwd' = cwd
             /\ \E i \in Files(inode_table) :
                   /\ inode_table[i].name = result'.name
                   /\ inode_table' = [inode_table EXCEPT ![i].name = result'.out[1]]
             /\ \A i \in Files(inode_table) :
                   ReadSlot(disk', inode_table', i) = ReadSlot(disk, inode_table, i)]_vars

\* the part of C13 about the metadata alone, which the code meets
C13_RenameMetadataFrame ==
    [][(result'.op = "rename_file" /\ result'.status = "ok")
          => /\ bitmap' = bitmap
             /\ cwd' = cwd
             /\ \E i \in Files(inode_table) :
                   /\ inode_table[i].name = result'.name
                   /\ inode_table' = [inode_table EXCEPT ![i].name = result'.out[1]]]_vars

\* the name n is a symbolic link on a cycle of two links, n -> m -> n
OnSymlinkCycle(it, n) ==
    \E i \in Slots, j \in Slots :
       /\ i # j
       /\ it[i].type = "symlink" /\ it[j].type = "symlink"
       /\ it[i].name = n /\ it[i].target = it[j].name
       /\ it[j].target = n

\* C14: read_file on a symbolic link that is on a cycle of two links returns
\* to its caller with the error TooManySymlinks, never with another error or
\* with a content
C14_SymlinkCycleTooManySymlinks ==
    [][(result'.op = "read_file" /\ OnSymlinkCycle(inode_table, result'.name))
          => result'.status = "TooManySymlinks"]_vars

\* the operations that change the metadata
MutatingOps == {"create_file", "append", "delete_file", "copy_file", "rename_file",
                "create_symlink", "create_directory", "remove_directory"}

\* C15: at every operation boundary of a running program, after an operation
\* that raised as well as after one that returned, the bitmap and inode table
\* stored in the image are the ones in memory
C15_ImageEqualsMemory ==
    running => /\ Intact
               /\ pickled.bitmap = bitmap
               /\ pickled.inode_table = inode_table

\* the part of C15 about operations that return normally, which the code meets
C15_SavedAfterSuccess ==
    [][(result'.op \in MutatingOps /\ result'.status = "ok")
          => /\ Intact'
             /\ pickled'.bitmap = bitmap'
             /\ pickled'.inode_table = inode_table']_vars

\* the ways an operation fails
Failures == {"FileNotFoundError", "RuntimeError", "UnicodeDecodeError", "not found"}

\* C16: an operation that fails (a missing name, a directory that is not empty,
\* no free inode slot, not enough free blocks) leaves the in-memory bitmap, the
\* inode table and the cursor as they were before the call
C16_FailureChangesNothing ==
    [][(result'.op \in MutatingOps \cup {"read_file", "list_directory", "change_directory"}
           /\ result'.status \in Failures)
          => /\ bitmap' = bitmap
             /\ inode_table' = inode_table
             /\ cwd' = cwd]_vars

\* the part of C16 the code meets: a failure that is not a create_file running
\* out of blocks changes neither bitmap, inode table nor cursor
C16_LookupFailuresChangeNothing ==
    [][(result'.op \in {"read_file", "delete_file", "rename_file", "list_directory",
                        "remove_directory", "change_directory", "create_symlink",
                        "create_directory"}
           /\ result'.status \in Failures)
          => /\ bitmap' = bitmap
             /\ inode_table' = inode_table
             /\ cwd' = cwd]_vars

\* C17: every live file inode holds exactly ceil(size / block_size) blocks, and
\* reading it returns a content of exactly 'size' characters
C17_BlocksAndReadLength ==
    running => \A i \in Files(inode_table) :
                  /\ Len(inode_table[i].blocks) = BlocksFor(inode_table[i].size)
                  /\ ReadSlot(disk, inode_table, i) # DecodeError
                  /\ Len(ReadSlot(disk, inode_table, i)) = inode_table[i].size

\* the first half of C17, which the code meets
C17_BlockCount ==
    \A i \in Files(inode_table) :
       Len(inode_table[i].blocks) = BlocksFor(inode_table[i].size)

\* C17's second half for the reads that return: a content that read_file
\* returns has 'size' characters
C17_ReturnedLength ==
    running => \A i \in Files(inode_table) :
                  \/ ReadSlot(disk, inode_table, i) = DecodeError
                  \/ Len(ReadSlot(disk, inode_table, i)) = inode_table[i].size

\* C18: in every state of a running program cwd is the index of a live inode
\* of type directory
C18_CwdIsLiveDirectory ==
    running => /\ cwd \in Slots
               /\ inode_table[cwd].type = "directory"

\* the part of C18 the code meets: cwd is always an index of the inode table
C18_CwdInTable == cwd \in Slots

\* C18 for a cursor that is not at slot 0: it is violated as well, by
\* remove_directory of the directory the cursor is in
C18_CwdOffRootIsLiveDirectory ==
    (running /\ cwd # 0) => inode_table[cwd].type = "directory"

FreeBlockSet(bm) == {b \in Blocks : bm[b] = 0}
FreeSlotSet(it) == {i \in Slots : it[i] = None}

\* the operations that go through create_file
FileCreateOps == {"create_file", "append", "copy_file"}

\* C19: allocation is first-fit. A create_file call succeeds exactly when a
\* slot is free and the content needs no more blocks than are free; a
\* successful create_file, create_symlink or create_directory fills the lowest
\* free slot and no other, and the m-th block of a new file is the m-th lowest
\* block that was free before the call (so whatever delete_file freed is taken
\* again when it is the lowest)
C19_FirstFit ==
    [][/\ (result'.op \in FileCreateOps /\ result'.status \in {"ok", "RuntimeError"})
             => (result'.status = "ok"
                   <=> /\ FreeSlotSet(inode_table) # {}
                       /\ BlocksFor(Len(result'.content))
                             <= Cardinality(FreeBlockSet(bitmap)))
       /\ (result'.op \in FileCreateOps \cup {"create_symlink", "create_directory"}
              /\ result'.status = "ok")
             => \E j \in FreeSlotSet(inode_table) :
                   /\ \A i \in FreeSlotSet(inode_table) : j <= i
                   /\ inode_table'[j] # None
                   /\ \A k \in Slots \ {j} : inode_table'[k] = inode_table[k]
                   /\ result'.op \in FileCreateOps
                         => LET bl == inode_table'[j].blocks
                            IN  /\ Len(bl) = BlocksFor(Len(result'.content))
                                /\ \A m \in 1 .. Len(bl) :
                                      /\ bl[m] \in FreeBlockSet(bitmap)
                                      /\ Cardinality({c \in FreeBlockSet(bitmap) : c < bl[m]})
                                            = m - 1]_vars

\* a create_file has just filled slot 0 with blocks 0 and 2 while slot 1 holds
\* a file on block 1: slot 0 and block 0 were freed by a delete_file and taken
\* again, and block 1 in between was skipped
C19_Witness ==
    /\ result.op = "create_file" /\ result.status = "ok"
    /\ Len(result.content) = 3
    /\ inode_table[0].type = "file" /\ inode_table[0].blocks = <<0, 2>>
    /\ inode_table[1].type = "file" /\ inode_table[1].blocks = <<1>>

====
